---- MODULE Spec2Model ----
(***************************************************************************)
(* A model of the odyssey-lift-off GraphQL gateway: the resolver map       *)
(* (resolvers) and the REST data source (TrackAPI).                         *)
(*                                                                         *)
(* One GraphQL operation dispatches up to MaxInv resolver invocations.     *)
(* A data-fetching resolver calls one TrackAPI method, which issues one    *)
(* HTTP request (this.get / this.patch) and hands back a promise; the      *)
(* invocation is suspended until the upstream REST service has answered.   *)
(* Invocations interleave freely at that suspension point.                 *)
(*                                                                         *)
(* JavaScript values are tagged records, so that null, undefined, numbers, *)
(* strings and objects can sit in the same field and be told apart.        *)
(***************************************************************************)
EXTENDS Integers, Sequences, FiniteSets

\* Number of resolver invocations dispatched by the engine in one operation.
MaxInv == 2

VARIABLES
    inv,        \* inv[i]: the i-th resolver invocation (position, inputs, outcome)
    requests,   \* the HTTP requests issued through this.get / this.patch, in order
    views       \* upstream state: the view counter of every track of the catalog

vars == <<inv, requests, views>>

Invs == 1..MaxInv

-----------------------------------------------------------------------------
(* JavaScript values *)

Undefined == [t |-> "undefined"]
Null == [t |-> "null"]
Num(n) == [t |-> "number", v |-> n]
Str(s) == [t |-> "string", v |-> s]
Bool(b) == [t |-> "boolean", v |-> b]
Obj(fields) == [t |-> "object", v |-> fields]
Arr(elems) == [t |-> "array", v |-> elems]

\* obj.key : undefined when the object has no such property.  Reading a
\* property of undefined or null is the TypeError the callers test for with
\* Nullish before they read.
Nullish(x) == x.t \in {"undefined", "null"}

Get(obj, key) ==
    IF obj.t = "object" /\ key \in DOMAIN obj.v THEN obj.v[key] ELSE Undefined

\* `${x}` in a template literal
TemplateString(x) ==
    CASE x.t = "string" -> x.v
      [] x.t = "undefined" -> "undefined"
      [] x.t = "null" -> "null"

\* The settlement of a promise
Fulfilled(value) == [st |-> "fulfilled", value |-> value]
Rejected(error) == [st |-> "rejected", value |-> error]
Pending == [st |-> "pending", value |-> Undefined]

TypeError == Obj([name |-> Str("TypeError"),
                  message |-> Str("Cannot read properties of undefined")])

-----------------------------------------------------------------------------
(* The upstream REST catalog and the REST client library *)

TrackIds == {"1", "2"}
AuthorIds == {"author-1"}
ModuleIds == {"m1"}

TrackDTO(id, v) ==
    Obj([id |-> Str(id), title |-> Str("track " \o id),
         authorId |-> Str(IF id = "1" THEN "author-1" ELSE "author-2"),
         length |-> Num(IF id = "1" THEN 120 ELSE 45),
         numberOfViews |-> Num(v[id])])

AuthorDTO(id) == Obj([id |-> Str(id), name |-> Str("Grumpy Cat")])

ModuleDTO(id) == Obj([id |-> Str(id), title |-> Str("module " \o id), length |-> Num(30)])

\* The error the REST client rejects with on a non-2xx response: it carries
\* the response (status and body) under extensions.
UpstreamHTTPError(status, body) ==
    Obj([name |-> Str("ApolloError"),
         extensions |-> Obj([response |-> Obj([status |-> Num(status), body |-> body])])])

\* A network-level fault: the fetch itself rejects; the error has no extensions.
UpstreamTransportError ==
    Obj([name |-> Str("FetchError"), message |-> Str("connect ECONNREFUSED")])

NotFound == [settle |-> Rejected(UpstreamHTTPError(404, Str("Not found"))), views |-> views]

\* What the catalog answers to a request when it serves it: the settlement of
\* the client's promise and the catalog's state afterwards.
Served(req) ==
    IF req.method = "GET" THEN
        IF req.path = "tracks"
        THEN [settle |-> Fulfilled(Arr(<<TrackDTO("1", views), TrackDTO("2", views)>>)),
              views |-> views]
        ELSE IF \E t \in TrackIds : req.path = "track/" \o t
        THEN LET t == CHOOSE t \in TrackIds : req.path = "track/" \o t
             IN [settle |-> Fulfilled(TrackDTO(t, views)), views |-> views]
        ELSE IF \E t \in TrackIds : req.path = "track/" \o t \o "/modules"
        THEN [settle |-> Fulfilled(Arr(<<ModuleDTO("m1")>>)), views |-> views]
        ELSE IF \E a \in AuthorIds : req.path = "author/" \o a
        THEN LET a == CHOOSE a \in AuthorIds : req.path = "author/" \o a
             IN [settle |-> Fulfilled(AuthorDTO(a)), views |-> views]
        ELSE IF \E m \in ModuleIds : req.path = "module/" \o m
        THEN LET m == CHOOSE m \in ModuleIds : req.path = "module/" \o m
             IN [settle |-> Fulfilled(ModuleDTO(m)), views |-> views]
        ELSE NotFound
    ELSE
        IF \E t \in TrackIds : req.path = "track/" \o t \o "/numberOfViews"
        THEN LET t == CHOOSE t \in TrackIds : req.path = "track/" \o t \o "/numberOfViews"
                 incremented == [views EXCEPT ![t] = @ + 1]
             IN [settle |-> Fulfilled(TrackDTO(t, incremented)), views |-> incremented]
        ELSE NotFound

\* Every way a request can end: served, refused by a failing server, or lost
\* to a network fault before the catalog saw it.
UpstreamOutcomes(req) ==
    { Served(req),
      [settle |-> Rejected(UpstreamHTTPError(500, Str("Internal Server Error"))),
       views |-> views],
      [settle |-> Rejected(UpstreamTransportError), views |-> views] }

-----------------------------------------------------------------------------
(* TrackAPI: one HTTP request per method *)

getTracksForHome == [method |-> "GET", path |-> "tracks"]

getAuthor(authorId) == [method |-> "GET", path |-> "author/" \o TemplateString(authorId)]

\* A variant that counts the view while it fetches the track.
getTrack_counting(trackId) ==
    [method |-> "PATCH", path |-> "track/" \o TemplateString(trackId) \o "/numberOfViews"]

getTrack(trackId) == [method |-> "GET", path |-> "track/" \o TemplateString(trackId)]

\* A variant that drops the sub-collection and asks for the track itself.
getTrackModules_noSuffix(trackId) ==
    [method |-> "GET", path |-> "track/" \o TemplateString(trackId)]

getTrackModules(trackId) ==
    [method |-> "GET", path |-> "track/" \o TemplateString(trackId) \o "/modules"]

getModule(moduleId) == [method |-> "GET", path |-> "module/" \o TemplateString(moduleId)]

incrementTrackViews(trackId) ==
    [method |-> "PATCH", path |-> "track/" \o TemplateString(trackId) \o "/numberOfViews"]

-----------------------------------------------------------------------------
(* The inputs the engine hands to the resolvers *)

\* ids a client can ask for: two tracks of the catalog and one that is not
ArgIds == {"1", "2", "999"}

ModuleArgIds == {"m1", "999"}

\* parents of the Track fields: the tracks an earlier resolver returned
TrackParents == { TrackDTO(t, views) : t \in TrackIds }

\* parents of durationInSeconds: tracks, modules, and an object without length
LengthParents ==
    TrackParents \cup { ModuleDTO(m) : m \in ModuleIds } \cup { Obj([id |-> Str("x")]) }

Idle ==
    [pc |-> "idle", field |-> "none", parent |-> Undefined, args |-> Obj(<<>>),
     req |-> 0, promise |-> Pending, outcome |-> Pending]

Init ==
    /\ inv = [i \in Invs |-> Idle]
    /\ requests = <<>>
    /\ views = [t \in TrackIds |-> 0]

\* The engine dispatches the invocations of an operation one after the other.
CanDispatch(i) ==
    /\ inv[i].pc = "idle"
    /\ IF i = 1 THEN TRUE ELSE inv[i - 1].pc # "idle"

\* this.get(path) / this.patch(path): the request goes out, the promise is pending
Fetch(i, field, parent, args, req) ==
    /\ requests' = Append(requests, [by |-> i, method |-> req.method, path |-> req.path])
    /\ inv' = [inv EXCEPT ![i] =
                 [pc |-> "awaiting", field |-> field, parent |-> parent, args |-> args,
                  req |-> Len(requests) + 1, promise |-> Pending, outcome |-> Pending]]
    /\ UNCHANGED views

\* A variant that swallows a failure and hands back an empty list instead.
ReturnPromise_orEmpty(p) == IF p.st = "rejected" THEN Fulfilled(Arr(<<>>)) ELSE p

\* What a resolver that returns the data source's promise hands to the engine:
\* that promise, as it settles.
ReturnPromise(p) == p

-----------------------------------------------------------------------------
(* resolvers.Query *)

Query_tracksForHome(i) ==
    /\ CanDispatch(i)
    /\ Fetch(i, "Query.tracksForHome", Undefined, Obj(<<>>), getTracksForHome)

Query_track(i, id) ==
    /\ CanDispatch(i)
    /\ LET args == Obj([id |-> Str(id)])
       IN Fetch(i, "Query.track", Undefined, args, getTrack(Get(args, "id")))

Query_module(i, id) ==
    /\ CanDispatch(i)
    /\ LET args == Obj([id |-> Str(id)])
       IN Fetch(i, "Query.module", Undefined, args, getModule(Get(args, "id")))

(* resolvers.Track, resolvers.Module *)

Track_author(i, parent) ==
    /\ CanDispatch(i)
    /\ Fetch(i, "Track.author", parent, Obj(<<>>), getAuthor(Get(parent, "authorId")))

Track_modules(i, parent) ==
    /\ CanDispatch(i)
    /\ Fetch(i, "Track.modules", parent, Obj(<<>>), getTrackModules(Get(parent, "id")))

\* A variant that reads the schema's field name off the parent, not the DTO's.
durationInSeconds_wrongAttr(parent) == Get(parent, "durationInSeconds")

\* ({ length }) => length
durationInSeconds(parent) == Get(parent, "length")

Project(i, field, parent) ==
    /\ inv' = [inv EXCEPT ![i] =
                 [pc |-> "done", field |-> field, parent |-> parent, args |-> Obj(<<>>),
                  req |-> 0, promise |-> Pending,
                  outcome |-> Fulfilled(durationInSeconds(parent))]]
    /\ UNCHANGED <<requests, views>>

Track_durationInSeconds(i, parent) ==
    /\ CanDispatch(i)
    /\ Project(i, "Track.durationInSeconds", parent)

Module_durationInSeconds(i, parent) ==
    /\ CanDispatch(i)
    /\ Project(i, "Module.durationInSeconds", parent)

-----------------------------------------------------------------------------
(* resolvers.Mutation *)

\* up to the await: the PATCH goes out and the resolver is suspended
Mutation_incrementTrackViews(i, id) ==
    /\ CanDispatch(i)
    /\ LET args == Obj([id |-> Str(id)])
       IN Fetch(i, "Mutation.incrementTrackViews", Undefined, args,
                incrementTrackViews(Get(args, "id")))

\* A variant whose message does not interpolate the id.
TryBranch_noId(id, track) ==
    Fulfilled(Obj([code |-> Num(200),
                   success |-> Bool(TRUE),
                   message |-> Str("Successfully incremented number of views for track"),
                   track |-> track]))

\* the try branch, after the await fulfilled with track
TryBranch(id, track) ==
    Fulfilled(Obj([code |-> Num(200),
                   success |-> Bool(TRUE),
                   message |-> Str("Successfully incremented number of views for track "
                                   \o TemplateString(id)),
                   track |-> track]))

\* A variant that reads the status off the error itself: err.status.
CatchBranch_statusOnError(err) ==
    LET extensions == Get(err, "extensions")
        response == Get(extensions, "response")
    IN IF Nullish(extensions) \/ Nullish(response)
       THEN Rejected(TypeError)
       ELSE Fulfilled(Obj([code |-> Get(err, "status"),
                           success |-> Bool(FALSE),
                           message |-> Get(response, "body"),
                           track |-> Null]))

\* A variant that reports the error's own message, not the response body.
CatchBranch_errMessage(err) ==
    LET extensions == Get(err, "extensions")
        response == Get(extensions, "response")
    IN IF Nullish(extensions) \/ Nullish(response)
       THEN Rejected(TypeError)
       ELSE Fulfilled(Obj([code |-> Get(response, "status"),
                           success |-> Bool(FALSE),
                           message |-> Get(err, "message"),
                           track |-> Null]))

\* A variant that rethrows an error that carries no response.
CatchBranch_rethrow(err) ==
    LET extensions == Get(err, "extensions")
        response == Get(extensions, "response")
    IN IF Nullish(extensions) \/ Nullish(response)
       THEN Rejected(err)
       ELSE Fulfilled(Obj([code |-> Get(response, "status"),
                           success |-> Bool(FALSE),
                           message |-> Get(response, "body"),
                           track |-> Null]))

\* the catch branch: err.extensions.response.status and .body are read
\* without a test, so an error without them makes the branch itself throw
CatchBranch(err) ==
    LET extensions == Get(err, "extensions")
        response == Get(extensions, "response")
    IN IF Nullish(extensions) \/ Nullish(response)
       THEN Rejected(TypeError)
       ELSE Fulfilled(Obj([code |-> Get(response, "status"),
                           success |-> Bool(FALSE),
                           message |-> Get(response, "body"),
                           track |-> Null]))

\* A variant in which the id lives in a variable of the module, shared by the
\* invocations: the continuation reads what the latest dispatched mutation wrote.
Mutation_incrementTrackViews_resume_shared(i) ==
    /\ inv[i].pc = "resumable"
    /\ LET latest == CHOOSE j \in Invs :
                        /\ inv[j].field = "Mutation.incrementTrackViews"
                        /\ \A k \in Invs :
                              inv[k].field = "Mutation.incrementTrackViews" => k <= j
       IN inv' = [inv EXCEPT ![i].pc = "done",
                             ![i].outcome =
                                 IF inv[i].promise.st = "fulfilled"
                                 THEN TryBranch(Get(inv[latest].args, "id"),
                                                inv[i].promise.value)
                                 ELSE CatchBranch(inv[i].promise.value)]
    /\ UNCHANGED <<requests, views>>

\* the resolver resumes after its await
Mutation_incrementTrackViews_resume(i) ==
    /\ inv[i].pc = "resumable"
    /\ inv' = [inv EXCEPT ![i].pc = "done",
                          ![i].outcome =
                              IF inv[i].promise.st = "fulfilled"
                              THEN TryBranch(Get(inv[i].args, "id"), inv[i].promise.value)
                              ELSE CatchBranch(inv[i].promise.value)]
    /\ UNCHANGED <<requests, views>>

-----------------------------------------------------------------------------
(* The upstream answers *)

\* The request of invocation i ends; the promise this.get / this.patch returned
\* settles.  A resolver that returned that promise is thereby settled itself; the
\* async mutation resolver becomes resumable.
Respond(i) ==
    /\ inv[i].pc = "awaiting"
    /\ \E o \in UpstreamOutcomes(requests[inv[i].req]) :
          /\ views' = o.views
          /\ inv' = [inv EXCEPT ![i] =
                       IF inv[i].field = "Mutation.incrementTrackViews"
                       THEN [@ EXCEPT !.pc = "resumable", !.promise = o.settle]
                       ELSE [@ EXCEPT !.pc = "done", !.promise = o.settle,
                                      !.outcome = ReturnPromise(o.settle)]]
    /\ UNCHANGED requests

Next ==
    \E i \in Invs :
        \/ Query_tracksForHome(i)
        \/ \E id \in ArgIds : Query_track(i, id)
        \/ \E id \in ModuleArgIds : Query_module(i, id)
        \/ \E id \in ArgIds : Mutation_incrementTrackViews(i, id)
        \/ Mutation_incrementTrackViews_resume(i)
        \/ \E parent \in TrackParents : Track_author(i, parent)
        \/ \E parent \in TrackParents : Track_modules(i, parent)
        \/ \E parent \in LengthParents : Track_durationInSeconds(i, parent)
        \/ \E parent \in LengthParents : Module_durationInSeconds(i, parent)
        \/ Respond(i)

Spec == Init /\ [][Next]_vars

-----------------------------------------------------------------------------
(* Vocabulary of the properties *)

MutationField == "Mutation.incrementTrackViews"

QueryFields ==
    {"Query.tracksForHome", "Query.track", "Query.module", "Track.author", "Track.modules"}

ProjectionFields == {"Track.durationInSeconds", "Module.durationInSeconds"}

Done(i) == inv[i].pc = "done"

Returned(i) == Done(i) /\ inv[i].outcome.st = "fulfilled"

Threw(i) == Done(i) /\ inv[i].outcome.st = "rejected"

\* the id argument of invocation i, as the string the client sent
ArgId(i) == inv[i].args.v.id.v

RequestsBy(i) == { k \in DOMAIN requests : requests[k].by = i }

HTTPStatuses == {404, 500}

HTTPBodies == {Str("Not found"), Str("Internal Server Error")}

\* a result object of the mutation: exactly the four fields of the wrapper
WellFormed(r) ==
    r.t = "object" /\ DOMAIN r.v = {"code", "success", "message", "track"}

-----------------------------------------------------------------------------
\* C1: every result object Mutation.incrementTrackViews returns has a non-null
\* code and a boolean success, and its track is non-null exactly when success
\* is true.
C1_ResultShape ==
    \A i \in Invs :
        (inv[i].field = MutationField /\ Returned(i)) =>
            LET r == inv[i].outcome.value
            IN /\ WellFormed(r)
               /\ r.v.code.t = "number"
               /\ r.v.success.t = "boolean"
               /\ (r.v.track.t \notin {"null", "undefined"}) <=> (r.v.success = Bool(TRUE))

\* one mutation returned after a success and another after an HTTP error
C1_Witness ==
    \E i, j \in Invs :
        /\ inv[i].field = MutationField /\ Returned(i) /\ inv[i].promise.st = "fulfilled"
        /\ inv[j].field = MutationField /\ Returned(j) /\ inv[j].promise.st = "rejected"

\* C2: the mutation resolver never completes by throwing: whatever failure its
\* upstream call raises (HTTP error or transport fault), it returns a
\* well-formed result object.
C2_NeverThrows ==
    \A i \in Invs :
        (inv[i].field = MutationField /\ Done(i)) =>
            /\ inv[i].outcome.st = "fulfilled"
            /\ WellFormed(inv[i].outcome.value)

\* C3: when the PATCH fails with an HTTP error of status s and body b, the
\* mutation returns exactly {code: s, success: false, message: b, track: null}.
C3_HTTPErrorReshaped ==
    \A i \in Invs : \A s \in HTTPStatuses : \A b \in HTTPBodies :
        ( /\ inv[i].field = MutationField
          /\ Done(i)
          /\ inv[i].promise = Rejected(UpstreamHTTPError(s, b)) ) =>
            inv[i].outcome =
                Fulfilled(Obj([code |-> Num(s), success |-> Bool(FALSE),
                               message |-> b, track |-> Null]))

\* the 404 / "Not found" scenario on track 999 has run to its end
C3_Witness ==
    \E i \in Invs :
        /\ inv[i].field = MutationField /\ Done(i) /\ ArgId(i) = "999"
        /\ inv[i].promise = Rejected(UpstreamHTTPError(404, Str("Not found")))
        /\ inv[i].outcome.value.v.code = Num(404)

\* C4: when the PATCH for track id succeeds with track t, the mutation returns
\* exactly {code: 200, success: true, message: "Successfully incremented number
\* of views for track <id>", track: t}.
C4_SuccessResult ==
    \A i \in Invs :
        ( /\ inv[i].field = MutationField
          /\ Done(i)
          /\ inv[i].promise.st = "fulfilled" ) =>
            inv[i].outcome =
                Fulfilled(Obj([code |-> Num(200), success |-> Bool(TRUE),
                               message |->
                                   Str("Successfully incremented number of views for track "
                                       \o ArgId(i)),
                               track |-> inv[i].promise.value]))

\* track 2 was incremented and the result carries the updated track
C4_Witness ==
    \E i \in Invs :
        /\ inv[i].field = MutationField /\ Done(i) /\ ArgId(i) = "2"
        /\ inv[i].outcome.st = "fulfilled"
        /\ inv[i].outcome.value.v.track = TrackDTO("2", views)
        /\ views["2"] = 1

C6_FailurePropagates ==
    \A i \in Invs :
        ( /\ inv[i].field \in QueryFields
          /\ inv[i].promise.st = "rejected" ) =>
            /\ Threw(i)
            /\ inv[i].outcome.value = inv[i].promise.value

\* tracksForHome failed on a transport fault, Track.author on an HTTP error
C6_Witness ==
    \E i, j \in Invs :
        /\ inv[i].field = "Query.tracksForHome"
        /\ inv[i].outcome = Rejected(UpstreamTransportError)
        /\ inv[j].field = "Track.author"
        /\ inv[j].outcome = Rejected(UpstreamHTTPError(404, Str("Not found")))

\* C7: a durationInSeconds invocation returns exactly its parent's length and
\* leaves the list of upstream requests as it was.
C7_DurationIsLength ==
    [][ \A i \in Invs :
            (inv[i].pc = "idle" /\ inv'[i].field \in ProjectionFields) =>
                /\ requests' = requests
                /\ inv'[i].pc = "done"
                /\ inv'[i].outcome =
                      Fulfilled(IF "length" \in DOMAIN inv'[i].parent.v
                                THEN inv'[i].parent.v.length
                                ELSE Undefined) ]_vars

\* a track's duration was resolved while another invocation's request was out
C7_Witness ==
    \E i, j \in Invs :
        /\ inv[i].field = "Track.durationInSeconds"
        /\ inv[i].outcome = Fulfilled(Num(120))
        /\ inv[j].pc = "awaiting"
        /\ Len(requests) = 1

\* the request each data-fetching resolver is bound to
BoundRequest(i) ==
    CASE inv[i].field = "Query.tracksForHome" -> [method |-> "GET", path |-> "tracks"]
      [] inv[i].field = "Query.track" -> [method |-> "GET", path |-> "track/" \o ArgId(i)]
      [] inv[i].field = "Query.module" -> [method |-> "GET", path |-> "module/" \o ArgId(i)]
      [] inv[i].field = "Track.author" ->
            [method |-> "GET", path |-> "author/" \o inv[i].parent.v.authorId.v]
      [] inv[i].field = "Track.modules" ->
            [method |-> "GET", path |-> "track/" \o inv[i].parent.v.id.v \o "/modules"]
      [] inv[i].field = MutationField ->
            [method |-> "PATCH", path |-> "track/" \o ArgId(i) \o "/numberOfViews"]

\* C8: a data-fetching resolver invocation issues exactly one upstream request,
\* the one it is bound to, whether the request succeeds or fails; and on
\* success a resolver other than the mutation returns the upstream result.
C8_ExactlyOneRequest ==
    \A i \in Invs :
        (inv[i].field \in QueryFields \cup {MutationField}) =>
            /\ Cardinality(RequestsBy(i)) = 1
            /\ \A k \in RequestsBy(i) :
                  /\ requests[k].method = BoundRequest(i).method
                  /\ requests[k].path = BoundRequest(i).path
            /\ (inv[i].field \in QueryFields /\ inv[i].promise.st = "fulfilled") =>
                  inv[i].outcome = Fulfilled(inv[i].promise.value)

\* Track.modules succeeded and a mutation failed, each with its one request
C8_Witness ==
    \E i, j \in Invs :
        /\ inv[i].field = "Track.modules" /\ Returned(i)
        /\ inv[j].field = MutationField /\ Done(j) /\ inv[j].promise.st = "rejected"
        /\ Len(requests) = 2

\* C9: a track's view counter changes only in a step that answers a PATCH
\* track/<that id>/numberOfViews issued by Mutation.incrementTrackViews for
\* that id; no other resolver's step changes the upstream state.
C9_OnlyMutationWrites ==
    [][ \A t \in TrackIds :
            (views'[t] # views[t]) =>
                \E i \in Invs :
                    /\ inv[i].field = MutationField
                    /\ ArgId(i) = t
                    /\ inv[i].pc = "awaiting" /\ inv'[i].pc = "resumable"
                    /\ requests[inv[i].req] =
                          [by |-> i, method |-> "PATCH",
                           path |-> "track/" \o t \o "/numberOfViews"] ]_vars

\* track 1 was incremented once, after queries for it and around it had run
C9_Witness ==
    \E i, j \in Invs :
        /\ inv[i].field = MutationField /\ Returned(i) /\ ArgId(i) = "1"
        /\ inv[j].field = "Query.track" /\ Returned(j) /\ ArgId(j) = "1"
        /\ views = [t \in TrackIds |-> IF t = "1" THEN 1 ELSE 0]

\* what an invocation returns when it runs alone: a function of its field,
\* its parent, its arguments and the settlement of its own request
RunAlone(field, parent, args, settle) ==
    IF field \in ProjectionFields THEN Fulfilled(durationInSeconds(parent))
    ELSE IF field \in QueryFields THEN settle
    ELSE IF settle.st = "fulfilled" THEN TryBranch(Get(args, "id"), settle.value)
    ELSE CatchBranch(settle.value)

\* C10: under every interleaving, what an invocation hands back is what it
\* would hand back run alone on its own parent, arguments and response; the
\* invocations in flight beside it change nothing of it.
C10_NoInterference ==
    \A i \in Invs :
        Done(i) =>
            /\ inv[i].outcome =
                  RunAlone(inv[i].field, inv[i].parent, inv[i].args, inv[i].promise)
            /\ inv[i].field \notin ProjectionFields => requests[inv[i].req].by = i

\* two mutations for different tracks overlapped: the later one was answered
\* and resumed first
C10_Witness ==
    /\ inv[1].field = MutationField /\ inv[2].field = MutationField
    /\ ArgId(1) # ArgId(2)
    /\ Returned(2) /\ inv[1].pc = "awaiting"

====
